---- MODULE Spec2Model ----
(***************************************************************************)
(* State-machine model of the user-management front end.                   *)
(*   variant "A" : src/src/App.js        (useCallback / useMemo version)    *)
(*   variant "B" : src/unnamed/part_001  (plain version of App.js)          *)
(*   todo store  : src/unnamed/part_000  (todoReducer / TodoProvider)       *)
(* Strings are sequences of one-character strings, so that trim(), the      *)
(* e-mail regular expression, toLowerCase() and includes() are computed.    *)
(***************************************************************************)
EXTENDS Integers, Sequences, FiniteSets, TLC

VARIABLES
    variant,       \* which App component is running: "A" or "B"
    mounted,       \* the startup useEffect has run
    slot,          \* localStorage item "users": [present, value]
    users,         \* state.users
    newUser,       \* state.newUser
    editingUser,   \* state.editingUser: <<>> (null) or <<record>>
    userToDelete,  \* state.userToDelete: 0 (null) or an id
    loading,       \* state.loading
    processing,    \* state.processing
    error,         \* state.error
    fetchReq,      \* getUsers() in flight
    addReq,        \* addUser() in flight: <<>> or <<closure of handleAddUser>>
    updReq,        \* updateUser() in flight: <<>> or <<closure of handleUpdateUser>>
    delReq,        \* deleteUser() in flight: <<>> or <<closure of handleConfirmDelete>>
    nextId,        \* the id the remote collection assigns to the next created record
    fetchCalls,    \* number of getUsers() calls issued
    calls,         \* number of addUser / updateUser / deleteUser calls issued
    searchTerm,    \* state.searchTerm
    sortConfig,    \* state.sortConfig
    currentPage,   \* state.currentPage
    usersPerPage,  \* state.usersPerPage
    todos,         \* TodoProvider state
    todoSlot,      \* localStorage item "todos": [present, value]
    now,           \* Date.now()
    todoMounted    \* the effect of TodoProvider has run after the first render

appVars  == <<variant, mounted, slot, users, newUser, editingUser, userToDelete,
              loading, processing, error, fetchReq, addReq, updReq, delReq,
              nextId, fetchCalls, calls>>
viewVars == <<searchTerm, sortConfig, currentPage, usersPerPage>>
todoVars == <<todos, todoSlot, now, todoMounted>>
vars     == <<appVars, viewVars, todoVars>>

(***************************************************************************)
(* Bounds of the model.                                                    *)
(***************************************************************************)
\* addUser / updateUser / deleteUser calls issued in one session
MaxCalls == 2
\* todos held by the todo store
MaxTodos == 2
\* readings of the clock
MaxNow == 3
\* records of the lists the view is computed over
MaxViewLen == 12
\* pages the Next control is followed to
MaxPage == 3

(***************************************************************************)
(* Strings.                                                                *)
(***************************************************************************)
Range(s) == {s[i] : i \in 1..Len(s)}

\* String.prototype.trim
RECURSIVE TrimLeft(_)
TrimLeft(s) == IF s # <<>> /\ Head(s) = " " THEN TrimLeft(Tail(s)) ELSE s

RECURSIVE TrimRight(_)
TrimRight(s) ==
    IF s # <<>> /\ s[Len(s)] = " " THEN TrimRight(SubSeq(s, 1, Len(s) - 1)) ELSE s

Trim(s) == TrimRight(TrimLeft(s))

\* a character of the class [^\s@]
NotSpaceAt(c) == c # " " /\ c # "@"

\* /^[^\s@]+@[^\s@]+\.[^\s@]+$/.test(email)
isValidEmail(email) ==
    \E i \in 1..Len(email), j \in 1..Len(email) :
        /\ email[i] = "@"
        /\ email[j] = "."
        /\ 1 < i
        /\ i + 1 < j
        /\ j < Len(email)
        /\ \A k \in 1..Len(email) : k # i => NotSpaceAt(email[k])

\* String.prototype.toLowerCase
LowerChar(c) == IF c = "A" THEN "a" ELSE IF c = "B" THEN "b" ELSE c
toLowerCase(s) == [i \in 1..Len(s) |-> LowerChar(s[i])]

\* String.prototype.includes
includes(s, t) ==
    \E i \in 0..(Len(s) - Len(t)) : SubSeq(s, i + 1, i + Len(t)) = t

(***************************************************************************)
(* Records, the persisted slot and its serialization.                      *)
(***************************************************************************)
User(i, n, e) == [id |-> i, name |-> n, email |-> e]

\* JSON.stringify(users): the record list written out field by field
Stringify(us) == [i \in 1..Len(us) |-> <<us[i].id, us[i].name, us[i].email>>]

\* JSON.parse(savedUsers)
Parse(txt) == [i \in 1..Len(txt) |-> User(txt[i][1], txt[i][2], txt[i][3])]

Absent == [present |-> FALSE, value |-> <<>>]
Stored(txt) == [present |-> TRUE, value |-> txt]

emptyForm == [name |-> <<>>, email |-> <<>>]

(***************************************************************************)
(* List view projection.                                                   *)
(***************************************************************************)
\* UTF-16 order of the characters used (also their collation order)
CharRank(c) ==
    CASE c = " " -> 0
      [] c = "." -> 1
      [] c = "@" -> 2
      [] c = "A" -> 3
      [] c = "B" -> 4
      [] c = "a" -> 5
      [] c = "b" -> 6

\* valueA.localeCompare(valueB), and the < / > comparison of part_001: -1, 0 or 1
RECURSIVE localeCompare(_, _)
localeCompare(a, b) ==
    IF a = <<>> THEN (IF b = <<>> THEN 0 ELSE -1)
    ELSE IF b = <<>> THEN 1
    ELSE IF CharRank(Head(a)) < CharRank(Head(b)) THEN -1
    ELSE IF CharRank(Head(a)) > CharRank(Head(b)) THEN 1
    ELSE localeCompare(Tail(a), Tail(b))

\* a[sortConfig.key]?.toLowerCase() || ''
SortValue(u, cfg) == toLowerCase(IF cfg.key = "name" THEN u.name ELSE u.email)

\* the comparator handed to Array.prototype.sort
SortCompare(a, b, cfg) ==
    IF cfg.direction = "asc"
    THEN localeCompare(SortValue(a, cfg), SortValue(b, cfg))
    ELSE localeCompare(SortValue(b, cfg), SortValue(a, cfg))

\* Array.prototype.sort (stable): x goes after every element not greater than it
RECURSIVE InsertSorted(_, _, _)
InsertSorted(x, s, cfg) ==
    IF s = <<>> THEN <<x>>
    ELSE IF SortCompare(Head(s), x, cfg) <= 0
         THEN <<Head(s)>> \o InsertSorted(x, Tail(s), cfg)
         ELSE <<x>> \o s

RECURSIVE SortUsers(_, _)
SortUsers(s, cfg) ==
    IF s = <<>> THEN <<>>
    ELSE InsertSorted(s[Len(s)], SortUsers(SubSeq(s, 1, Len(s) - 1), cfg), cfg)

\* the predicate of users.filter(...)
MatchesSearch(u, term) ==
    \/ includes(toLowerCase(u.name), toLowerCase(term))
    \/ includes(toLowerCase(u.email), toLowerCase(term))

FilterUsers(s, term) == SelectSeq(s, LAMBDA u : MatchesSearch(u, term))

\* Array.prototype.slice(start, end)
Slice(s, start, end) ==
    LET from == IF start < 0 THEN (IF Len(s) + start < 0 THEN 0 ELSE Len(s) + start)
                ELSE start
        to   == IF end < 0 THEN (IF Len(s) + end < 0 THEN 0 ELSE Len(s) + end)
                ELSE IF end > Len(s) THEN Len(s) ELSE end
    IN  SubSeq(s, from + 1, to)

\* Math.ceil(a / b) for a >= 0, b > 0
Ceil(a, b) == (a + b - 1) \div b

\* part_001: const totalFilteredUsers
totalFilteredUsers == Len(FilterUsers(users, searchTerm))

\* const filteredUsers (App.js: filter, sort, slice; part_001: sort, filter, slice)
filteredUsers ==
    IF variant = "A"
    THEN Slice(SortUsers(FilterUsers(users, searchTerm), sortConfig),
               (currentPage - 1) * usersPerPage, currentPage * usersPerPage)
    ELSE Slice(FilterUsers(SortUsers(users, sortConfig), searchTerm),
               (currentPage - 1) * usersPerPage, currentPage * usersPerPage)

\* App.js: const totalPages
totalPages == Ceil(Len(filteredUsers), usersPerPage)

\* App.js: const paginatedUsers
paginatedUsers ==
    LET start == (currentPage - 1) * usersPerPage
    IN  Slice(filteredUsers, start, start + usersPerPage)

\* the list rendered by <ul>: paginatedUsers.map in App.js, filteredUsers.map in part_001
RenderedUsers == IF variant = "A" THEN paginatedUsers ELSE filteredUsers

(***************************************************************************)
(* Inputs: what the user types and what the remote collection answers.     *)
(***************************************************************************)
validEmail == <<"a", "@", "b", ".", "a">>

NameInputs == {<<>>, <<" ">>, <<"a">>}

EmailInputs == {<<>>, <<" ">>, <<"a", "@", "b">>, validEmail}

\* the forms typed: at most one of the two fields is left empty, blank or
\* malformed at a time, which reaches every branch of the two validations
FormInScope(name, email) == Trim(name) # <<>> \/ email = validEmail

\* the answers of GET / (jsonplaceholder's collection, cut to two records)
ServerLists == {<<>>,
                <<User(1, <<"b">>, validEmail)>>,
                <<User(1, <<"b">>, validEmail), User(2, <<"a">>, validEmail)>>}

\* what an earlier session can have left in localStorage: the mirroring effect
\* writes non-empty lists only
SavedLists == {l \in ServerLists : Len(l) > 0}

\* the first id the remote collection assigns to a created record
FirstNewId == 1 + Cardinality(UNION {{l[i].id : i \in 1..Len(l)} : l \in ServerLists})

(***************************************************************************)
(* The App component: startup, persistence, fetch.                         *)
(***************************************************************************)
\* useEffect(() => { if (users.length > 0) localStorage.setItem(...) }, [users])
MirrorEffect(us, sl) == IF Len(us) > 0 THEN Stored(Stringify(us)) ELSE sl

\* dispatch of a new users array, followed by the re-render's mirroring effect
CommitUsers(us) ==
    /\ users' = us
    /\ slot' = MirrorEffect(us, slot)

InitApp ==
    /\ variant \in {"A", "B"}
    /\ mounted = FALSE
    /\ slot \in {Absent} \cup {Stored(Stringify(l)) : l \in SavedLists}
    /\ users = <<>>
    /\ newUser = emptyForm
    /\ editingUser = <<>>
    /\ userToDelete = 0
    /\ loading = FALSE
    /\ processing = FALSE
    /\ error = ""
    /\ fetchReq = FALSE
    /\ addReq = <<>>
    /\ updReq = <<>>
    /\ delReq = <<>>
    /\ nextId = FirstNewId
    /\ fetchCalls = 0
    /\ calls = 0

InitView ==
    /\ searchTerm = <<>>
    /\ sortConfig = [key |-> "name", direction |-> "asc"]
    /\ currentPage = 1
    /\ usersPerPage = IF variant = "A" THEN 10 ELSE 5

InitTodo ==
    /\ todos = <<>>
    /\ todoSlot = Absent
    /\ now = 1
    /\ todoMounted = FALSE

Init == InitApp /\ InitView /\ InitTodo

\* the startup effect: load the saved list, or call fetchUsers()
Mount ==
    /\ ~mounted
    /\ mounted' = TRUE
    /\ IF slot.present
       THEN /\ CommitUsers(Parse(slot.value))
            /\ UNCHANGED <<loading, fetchReq, fetchCalls>>
       ELSE /\ loading' = TRUE
            /\ fetchReq' = TRUE
            /\ fetchCalls' = fetchCalls + 1
            /\ UNCHANGED <<users, slot>>
    /\ UNCHANGED <<variant, newUser, editingUser, userToDelete, processing, error,
                   addReq, updReq, delReq, nextId>>
    /\ UNCHANGED <<calls, viewVars, todoVars>>

\* fetchUsers: getUsers() resolved
FetchOk ==
    /\ fetchReq
    /\ \E data \in ServerLists : CommitUsers(data)
    /\ fetchReq' = FALSE
    /\ error' = ""
    /\ loading' = FALSE
    /\ currentPage' = IF variant = "A" THEN 1 ELSE currentPage
    /\ UNCHANGED <<variant, mounted, newUser, editingUser, userToDelete, processing,
                   addReq, updReq, delReq, nextId, fetchCalls>>
    /\ UNCHANGED <<calls, searchTerm, sortConfig, usersPerPage, todoVars>>

\* fetchUsers: getUsers() rejected
FetchFail ==
    /\ fetchReq
    /\ fetchReq' = FALSE
    /\ error' = IF variant = "A" THEN "Network Error"
                ELSE "Failed to load users. Please try again later."
    /\ loading' = FALSE
    /\ UNCHANGED <<variant, mounted, slot, users, newUser, editingUser, userToDelete,
                   processing, addReq, updReq, delReq, nextId, fetchCalls>>
    /\ UNCHANGED <<calls, viewVars, todoVars>>

\* no dialog is rendered: the edit and the confirmation dialog are full-screen
\* overlays (className "fixed inset-0"), the page under them takes no click
NoDialog == editingUser = <<>> /\ userToDelete = 0

(***************************************************************************)
(* Add.                                                                    *)
(***************************************************************************)
\* onChange of the "Name" input of the add form
TypeNewName ==
    /\ mounted
    /\ NoDialog
    /\ \E n \in NameInputs :
        /\ n # newUser.name
        /\ FormInScope(n, newUser.email)
        /\ newUser' = [newUser EXCEPT !.name = n]
    /\ error' = IF variant = "A" THEN "" ELSE error
    /\ UNCHANGED <<variant, mounted, slot, users, editingUser, userToDelete, loading,
                   processing, fetchReq, addReq, updReq, delReq, nextId, fetchCalls>>
    /\ UNCHANGED <<calls, viewVars, todoVars>>

\* onChange of the "Email" input of the add form
TypeNewEmail ==
    /\ mounted
    /\ NoDialog
    /\ \E e \in EmailInputs :
        /\ e # newUser.email
        /\ FormInScope(newUser.name, e)
        /\ newUser' = [newUser EXCEPT !.email = e]
    /\ error' = IF variant = "A" THEN "" ELSE error
    /\ UNCHANGED <<variant, mounted, slot, users, editingUser, userToDelete, loading,
                   processing, fetchReq, addReq, updReq, delReq, nextId, fetchCalls>>
    /\ UNCHANGED <<calls, viewVars, todoVars>>

\* mutant of AddValidation: the e-mail pattern is not tested
AddValidationNoPattern(form) ==
    IF Trim(form.name) = <<>> THEN "Name is required"
    ELSE IF Trim(form.email) = <<>> THEN "Email is required"
    ELSE ""

\* the validation of handleAddUser: the message, "" when the form passes
AddValidation(form) ==
    IF Trim(form.name) = <<>> THEN "Name is required"
    ELSE IF Trim(form.email) = <<>> THEN "Email is required"
    ELSE IF ~isValidEmail(form.email) THEN "Invalid email format"
    ELSE ""

\* handleAddUser, up to its first await: a validation failure ends the handler
\* (error set, processing back to false), a valid form issues addUser(newUser)
handleAddUser ==
    /\ mounted
    /\ NoDialog
    /\ ~processing
    /\ IF AddValidation(newUser) # ""
       THEN /\ error' = AddValidation(newUser)
            /\ processing' = FALSE
            /\ UNCHANGED <<addReq, calls>>
       ELSE /\ calls < MaxCalls
            /\ calls' = calls + 1
            /\ processing' = TRUE
            /\ addReq' = <<[users |-> users, newUser |-> newUser]>>
            /\ UNCHANGED <<error>>
    /\ UNCHANGED <<variant, mounted, slot, users, newUser, editingUser, userToDelete,
                   loading, fetchReq, updReq, delReq, nextId, fetchCalls>>
    /\ UNCHANGED <<viewVars, todoVars>>

\* the record POST / answers with: the submitted fields and a generated id
CreatedUser(form, id) == User(id, form.name, form.email)

\* mutant of AddOk: the created record is put in front of the list
AddOkPrepends ==
    /\ addReq # <<>>
    /\ CommitUsers(<<CreatedUser(addReq[1].newUser, nextId)>> \o addReq[1].users)
    /\ nextId' = nextId + 1
    /\ newUser' = emptyForm
    /\ error' = ""
    /\ processing' = FALSE
    /\ addReq' = <<>>
    /\ UNCHANGED <<variant, mounted, editingUser, userToDelete, loading, fetchReq,
                   updReq, delReq, fetchCalls>>
    /\ UNCHANGED <<calls, viewVars, todoVars>>

\* handleAddUser after addUser() resolved
AddOk ==
    /\ addReq # <<>>
    /\ CommitUsers(Append(addReq[1].users, CreatedUser(addReq[1].newUser, nextId)))
    /\ nextId' = nextId + 1
    /\ newUser' = emptyForm
    /\ error' = ""
    /\ processing' = FALSE
    /\ addReq' = <<>>
    /\ UNCHANGED <<variant, mounted, editingUser, userToDelete, loading, fetchReq,
                   updReq, delReq, fetchCalls>>
    /\ UNCHANGED <<calls, viewVars, todoVars>>

\* handleAddUser after addUser() rejected (handleError of api.js throws)
AddFail ==
    /\ addReq # <<>>
    /\ error' = IF variant = "A" THEN "Network Error"
                ELSE "Failed to add user. Please try again."
    /\ processing' = FALSE
    /\ addReq' = <<>>
    /\ UNCHANGED <<variant, mounted, slot, users, newUser, editingUser, userToDelete,
                   loading, fetchReq, updReq, delReq, nextId, fetchCalls>>
    /\ UNCHANGED <<calls, viewVars, todoVars>>

(***************************************************************************)
(* Update.                                                                 *)
(***************************************************************************)
\* the Edit button of a rendered row
OpenEdit ==
    /\ mounted
    /\ NoDialog
    /\ ~loading
    /\ \E u \in Range(RenderedUsers) :
        /\ editingUser # <<u>>
        /\ editingUser' = <<u>>
    /\ UNCHANGED <<variant, mounted, slot, users, newUser, userToDelete, loading,
                   processing, error, fetchReq, addReq, updReq, delReq, nextId,
                   fetchCalls>>
    /\ UNCHANGED <<calls, viewVars, todoVars>>

\* onChange of the "Name" input of the edit dialog
EditName ==
    /\ editingUser # <<>>
    /\ \E n \in NameInputs :
        /\ n # editingUser[1].name
        /\ FormInScope(n, editingUser[1].email)
        /\ editingUser' = <<[editingUser[1] EXCEPT !.name = n]>>
    /\ UNCHANGED <<variant, mounted, slot, users, newUser, userToDelete, loading,
                   processing, error, fetchReq, addReq, updReq, delReq, nextId,
                   fetchCalls>>
    /\ UNCHANGED <<calls, viewVars, todoVars>>

\* onChange of the "Email" input of the edit dialog
EditEmail ==
    /\ editingUser # <<>>
    /\ \E e \in EmailInputs :
        /\ e # editingUser[1].email
        /\ FormInScope(editingUser[1].name, e)
        /\ editingUser' = <<[editingUser[1] EXCEPT !.email = e]>>
    /\ UNCHANGED <<variant, mounted, slot, users, newUser, userToDelete, loading,
                   processing, error, fetchReq, addReq, updReq, delReq, nextId,
                   fetchCalls>>
    /\ UNCHANGED <<calls, viewVars, todoVars>>

\* the Cancel button of the edit dialog
CancelEdit ==
    /\ editingUser # <<>>
    /\ editingUser' = <<>>
    /\ UNCHANGED <<variant, mounted, slot, users, newUser, userToDelete, loading,
                   processing, error, fetchReq, addReq, updReq, delReq, nextId,
                   fetchCalls>>
    /\ UNCHANGED <<calls, viewVars, todoVars>>

\* the validation of handleUpdateUser: the message, "" when the record passes
UpdateValidation(u) ==
    IF u.name = <<>> \/ u.email = <<>>
    THEN (IF variant = "A" THEN "All fields are required" ELSE "Please fill all fields")
    ELSE IF ~isValidEmail(u.email)
    THEN (IF variant = "A" THEN "Invalid email format"
          ELSE "Please enter a valid email address")
    ELSE ""

\* handleUpdateUser, up to its first await. A validation failure is caught and
\* toasted in App.js (processing back to false); part_001 sets error and returns
handleUpdateUser ==
    /\ editingUser # <<>>
    /\ ~processing
    /\ IF UpdateValidation(editingUser[1]) # ""
       THEN /\ error' = IF variant = "A" THEN error
                        ELSE UpdateValidation(editingUser[1])
            /\ processing' = (variant # "A")
            /\ UNCHANGED <<updReq, calls>>
       ELSE /\ calls < MaxCalls
            /\ calls' = calls + 1
            /\ processing' = TRUE
            /\ updReq' = <<[users |-> users, editingUser |-> editingUser[1]]>>
            /\ UNCHANGED <<error>>
    /\ UNCHANGED <<variant, mounted, slot, users, newUser, editingUser, userToDelete,
                   loading, fetchReq, addReq, delReq, nextId, fetchCalls>>
    /\ UNCHANGED <<viewVars, todoVars>>

\* the record PUT /id answers with: the submitted record under the id of the path
UpdatedUser(u) == User(u.id, u.name, u.email)

\* mutant of ReplaceById: the record is removed and the updated one appended
ReplaceByIdMovesLast(us, id, updated) ==
    Append(SelectSeq(us, LAMBDA u : u.id # id), updated)

\* users.map(user => user.id === <id> ? updatedUser : user)
ReplaceById(us, id, updated) ==
    [i \in 1..Len(us) |-> IF us[i].id = id THEN updated ELSE us[i]]

\* handleUpdateUser after updateUser() resolved (App.js matches on updatedUser.id,
\* part_001 on editingUser.id)
UpdateOk ==
    /\ updReq # <<>>
    /\ LET updated == UpdatedUser(updReq[1].editingUser)
           key     == IF variant = "A" THEN updated.id ELSE updReq[1].editingUser.id
       IN  CommitUsers(ReplaceById(updReq[1].users, key, updated))
    /\ editingUser' = <<>>
    /\ error' = IF variant = "A" THEN error ELSE ""
    /\ processing' = FALSE
    /\ updReq' = <<>>
    /\ UNCHANGED <<variant, mounted, newUser, userToDelete, loading, fetchReq,
                   addReq, delReq, nextId, fetchCalls>>
    /\ UNCHANGED <<calls, viewVars, todoVars>>

\* handleUpdateUser after updateUser() rejected
UpdateFail ==
    /\ updReq # <<>>
    /\ error' = IF variant = "A" THEN error
                ELSE "Failed to update user. Please try again."
    /\ processing' = FALSE
    /\ updReq' = <<>>
    /\ UNCHANGED <<variant, mounted, slot, users, newUser, editingUser, userToDelete,
                   loading, fetchReq, addReq, delReq, nextId, fetchCalls>>
    /\ UNCHANGED <<calls, viewVars, todoVars>>

(***************************************************************************)
(* Delete.                                                                 *)
(***************************************************************************)
\* mutant of SelectDelete: the row's Delete button calls deleteUser() at once
SelectDeleteImmediate ==
    /\ mounted
    /\ NoDialog
    /\ ~loading
    /\ ~processing
    /\ calls < MaxCalls
    /\ \E u \in Range(RenderedUsers) :
        /\ userToDelete' = u.id
        /\ delReq' = <<[users |-> users, userToDelete |-> u.id]>>
    /\ calls' = calls + 1
    /\ processing' = TRUE
    /\ UNCHANGED <<variant, mounted, slot, users, newUser, editingUser, loading,
                   error, fetchReq, addReq, updReq, nextId, fetchCalls>>
    /\ UNCHANGED <<viewVars, todoVars>>

\* the Delete button of a rendered row
SelectDelete ==
    /\ mounted
    /\ NoDialog
    /\ ~loading
    /\ \E u \in Range(RenderedUsers) :
        /\ userToDelete # u.id
        /\ userToDelete' = u.id
    /\ UNCHANGED <<variant, mounted, slot, users, newUser, editingUser, loading,
                   processing, error, fetchReq, addReq, updReq, delReq, nextId,
                   fetchCalls>>
    /\ UNCHANGED <<calls, viewVars, todoVars>>

\* the Cancel button of the confirmation dialog ({userToDelete && ...})
CancelDelete ==
    /\ userToDelete # 0
    /\ userToDelete' = 0
    /\ UNCHANGED <<variant, mounted, slot, users, newUser, editingUser, loading,
                   processing, error, fetchReq, addReq, updReq, delReq, nextId,
                   fetchCalls>>
    /\ UNCHANGED <<calls, viewVars, todoVars>>

\* mutant of ConfirmDeleteDisabled: the button is locked by its own call only
ConfirmDeleteDisabledPerForm == delReq # <<>>

\* disabled={processing} of the Delete button of the confirmation dialog: the
\* flag handleAddUser and handleUpdateUser set as well
ConfirmDeleteDisabled == processing

\* handleConfirmDelete, up to its await: the Delete button of the confirmation dialog
handleConfirmDelete ==
    /\ userToDelete # 0
    /\ ~ConfirmDeleteDisabled
    /\ calls < MaxCalls
    /\ calls' = calls + 1
    /\ processing' = TRUE
    /\ delReq' = <<[users |-> users, userToDelete |-> userToDelete]>>
    /\ UNCHANGED <<variant, mounted, slot, users, newUser, editingUser, userToDelete,
                   loading, error, fetchReq, addReq, updReq, nextId, fetchCalls>>
    /\ UNCHANGED <<viewVars, todoVars>>

\* users.filter(user => user.id !== userToDelete)
RemoveById(us, id) == SelectSeq(us, LAMBDA u : u.id # id)

\* handleConfirmDelete after deleteUser() resolved
DeleteOk ==
    /\ delReq # <<>>
    /\ CommitUsers(RemoveById(delReq[1].users, delReq[1].userToDelete))
    /\ userToDelete' = 0
    /\ processing' = FALSE
    /\ delReq' = <<>>
    /\ UNCHANGED <<variant, mounted, newUser, editingUser, loading, error, fetchReq,
                   addReq, updReq, nextId, fetchCalls>>
    /\ UNCHANGED <<calls, viewVars, todoVars>>

\* mutant of DeleteFail: the record is removed although deleteUser() rejected
DeleteFailRemoves ==
    /\ delReq # <<>>
    /\ CommitUsers(RemoveById(delReq[1].users, delReq[1].userToDelete))
    /\ userToDelete' = 0
    /\ processing' = FALSE
    /\ delReq' = <<>>
    /\ UNCHANGED <<variant, mounted, newUser, editingUser, loading, error, fetchReq,
                   addReq, updReq, nextId, fetchCalls>>
    /\ UNCHANGED <<calls, viewVars, todoVars>>

\* handleConfirmDelete after deleteUser() rejected
DeleteFail ==
    /\ delReq # <<>>
    /\ processing' = FALSE
    /\ delReq' = <<>>
    /\ UNCHANGED <<variant, mounted, slot, users, newUser, editingUser, userToDelete,
                   loading, error, fetchReq, addReq, updReq, nextId, fetchCalls>>
    /\ UNCHANGED <<calls, viewVars, todoVars>>

Next ==
    \/ Mount
    \/ FetchOk
    \/ FetchFail
    \/ TypeNewName
    \/ TypeNewEmail
    \/ handleAddUser
    \/ AddOk
    \/ AddFail
    \/ OpenEdit
    \/ EditName
    \/ EditEmail
    \/ CancelEdit
    \/ handleUpdateUser
    \/ UpdateOk
    \/ UpdateFail
    \/ SelectDelete
    \/ CancelDelete
    \/ handleConfirmDelete
    \/ DeleteOk
    \/ DeleteFail

Spec == Init /\ [][Next]_vars

(***************************************************************************)
(* Properties of the user variants (checked under Spec).                   *)
(***************************************************************************)

\* C1: whenever the Record Store changes, the mirroring effect leaves in the
\* persisted slot "users" the serialization of the full current record list.
C1_SlotMirrorsEveryChange ==
    [][users' # users => slot' = Stored(Stringify(users'))]_vars

\* C2: at start a present slot initialises the Record Store and no list call is
\* issued, ever; an absent slot issues exactly one list call, and when that call
\* succeeds the Record Store and the persisted slot both hold the fetched list.
C2_StartupLoadOrFetch ==
    [][/\ (~mounted /\ mounted' /\ slot.present)
            => (users' = Parse(slot.value) /\ fetchCalls' = 0 /\ ~fetchReq')
       /\ (~mounted /\ mounted' /\ ~slot.present)
            => (fetchCalls' = 1 /\ fetchReq')
       /\ (mounted => fetchCalls' = fetchCalls)
       /\ FetchOk => (slot'.present /\ Parse(slot'.value) = users')]_vars

\* the forms C3 speaks of
InvalidAddForm(form) ==
    \/ Trim(form.name) = <<>>
    \/ Trim(form.email) = <<>>
    \/ ~isValidEmail(form.email)

\* C3: an Add whose name or e-mail is empty after trimming, or whose e-mail does
\* not match the pattern, issues no create call, leaves the Record Store and the
\* persisted slot as they were and sets the error message of the failing field.
C3_InvalidAddRejected ==
    [][(handleAddUser /\ InvalidAddForm(newUser))
         => /\ addReq' = <<>>
            /\ calls' = calls
            /\ users' = users
            /\ slot' = slot
            /\ error' = (IF Trim(newUser.name) = <<>> THEN "Name is required"
                         ELSE IF Trim(newUser.email) = <<>> THEN "Email is required"
                         ELSE "Invalid email format")]_vars

\* an Add was rejected for a malformed e-mail
C3_Witness ==
    /\ error = "Invalid email format"
    /\ newUser.email = <<"a", "@", "b">>
    /\ addReq = <<>>
    /\ ~processing

\* C4: a failed gateway call of Add, Update or Delete leaves the Record Store as
\* it was: neither the step issuing the call nor the step handling the failure
\* inserts, replaces or removes a record.
C4_GatewayFailureKeepsStore ==
    [][(\/ handleAddUser \/ AddFail
        \/ handleUpdateUser \/ UpdateFail
        \/ handleConfirmDelete \/ DeleteFail) => users' = users]_vars

\* an Update failed (part_001): the dialog is still open and the stored record
\* is not the edited one
C4_Witness ==
    /\ error = "Failed to update user. Please try again."
    /\ updReq = <<>>
    /\ ~processing
    /\ editingUser # <<>>
    /\ \E i \in 1..Len(users) :
        users[i].id = editingUser[1].id /\ users[i] # editingUser[1]

\* C5: after a successful Add the persisted slot reads back as the list the Add
\* started from with the gateway-returned record appended, and the add form is
\* cleared.
C5_AddPersistsAppendedList ==
    [][AddOk => /\ slot'.present
                /\ Parse(slot'.value)
                     = Append(addReq[1].users, CreatedUser(addReq[1].newUser, nextId))
                /\ Parse(slot'.value) = users'
                /\ newUser' = emptyForm]_vars

\* an Add succeeded on a non-empty store
C5_Witness ==
    /\ Len(users) > 1
    /\ users[Len(users)].id >= FirstNewId
    /\ slot = Stored(Stringify(users))
    /\ newUser = emptyForm
    /\ addReq = <<>>

\* C6: every mutation attempt that ends in a validation failure or a gateway
\* failure ends with processing = false.
C6_ProcessingResetAfterFailure ==
    [][(\/ (handleAddUser /\ addReq' = <<>>)
        \/ (handleUpdateUser /\ updReq' = <<>>)
        \/ AddFail \/ UpdateFail \/ DeleteFail) => processing' = FALSE]_vars

\* C9: a delete call is issued only by the confirmation of the dialog, for the id
\* selected there; an id is selected only with a row's Delete button; cancelling
\* issues no call and leaves the Record Store as it was.
C9_DeleteOnlyAfterConfirmation ==
    [][/\ (delReq' # delReq /\ delReq' # <<>>)
            => /\ handleConfirmDelete
               /\ userToDelete # 0
               /\ delReq'[1].userToDelete = userToDelete
       /\ (userToDelete' # userToDelete /\ userToDelete' # 0) => SelectDelete
       /\ CancelDelete => (delReq' = delReq /\ calls' = calls /\ users' = users)]_vars

\* a delete call is in flight for the selected record
C9_Witness ==
    /\ delReq # <<>>
    /\ delReq[1].userToDelete = userToDelete
    /\ \E i \in 1..Len(users) : users[i].id = userToDelete

C13_InvalidUpdateRejected ==
    [][(handleUpdateUser /\ InvalidAddForm(editingUser[1]))
         => /\ updReq' = <<>>
            /\ calls' = calls
            /\ users' = users
            /\ editingUser' = editingUser]_vars

\* C16: a successful Update of the record with id i leaves the Record Store
\* with the same length and order, the gateway-returned record at the position
\* of i and every other record as it was, and closes the edit dialog.
C16_UpdateReplacesInPlace ==
    [][UpdateOk
         => /\ Len(users') = Len(users)
            /\ \A k \in 1..Len(users) :
                   users'[k] = IF users[k].id = updReq[1].editingUser.id
                               THEN UpdatedUser(updReq[1].editingUser)
                               ELSE users[k]
            /\ editingUser' = <<>>]_vars

\* the first of two records was renamed by an Update
C16_Witness ==
    /\ Len(users) = 2
    /\ users[1] = User(1, <<"a">>, validEmail)
    /\ users[2].id = 2
    /\ editingUser = <<>>
    /\ updReq = <<>>
    /\ slot = Stored(Stringify(users))

\* the ids of a record list
IdsOf(us) == {us[i].id : i \in 1..Len(us)}

\* C18: a record of the Record Store stays there until a confirmed Delete
\* removes it, and a confirmed Delete removes the selected record only, under
\* every interleaving of the responses of the gateway.
C18_RecordsStayUntilDeleted ==
    [][(IdsOf(users) \ (IF DeleteOk THEN {delReq[1].userToDelete} ELSE {}))
          \subseteq IdsOf(users')]_vars

(***************************************************************************)
(* The todo store: todoReducer and TodoProvider.                           *)
(***************************************************************************)
Todo(i, t, c, cat) == [id |-> i, text |-> t, completed |-> c, category |-> cat]

\* JSON.stringify(todos) and JSON.parse(storedTodos)
StringifyTodos(ts) ==
    [i \in 1..Len(ts) |-> <<ts[i].id, ts[i].text, ts[i].completed, ts[i].category>>]

ParseTodos(txt) ==
    [i \in 1..Len(txt) |-> Todo(txt[i][1], txt[i][2], txt[i][3], txt[i][4])]

\* the texts and categories dispatched (two of the five categories)
TodoTexts == {<<"a">>, <<"A">>}
TodoCategories == {"General", "Work"}

\* what an earlier session can have left under "todos"
SavedTodoLists == {<<>>, <<Todo(0, <<"a">>, TRUE, "Work")>>}

\* loadTodosFromStorage
loadTodosFromStorage(sl) == IF sl.present THEN ParseTodos(sl.value) ELSE <<>>

\* the payloads REORDER is dispatched with: the (category-filtered) view of the
\* list in a new order, a view that shows at least the todo that is dragged
ViewByCategory(ts, cat) == SelectSeq(ts, LAMBDA t : cat = "All" \/ t.category = cat)

Reorderings(view) ==
    {[i \in 1..Len(view) |-> view[p[i]]] : p \in Permutations(1..Len(view))}

ReorderPayloads(ts) ==
    UNION {Reorderings(ViewByCategory(ts, cat)) :
               cat \in {c \in TodoCategories \cup {"All"} : ViewByCategory(ts, c) # <<>>}}

\* todoReducer: the new state and the slot as the reducer leaves it
todoReducer(state, action, sl, clock) ==
    CASE action.type = "ADD" ->
           LET updatedTodos ==
                   Append(state, Todo(clock, action.payload.text, FALSE,
                                      action.payload.category))
           IN  [todos |-> updatedTodos, slot |-> Stored(StringifyTodos(updatedTodos))]
      [] action.type = "DELETE" ->
           LET updatedTodos == SelectSeq(state, LAMBDA t : t.id # action.payload)
           IN  [todos |-> updatedTodos, slot |-> Stored(StringifyTodos(updatedTodos))]
      [] action.type = "TOGGLE" ->
           LET updatedTodos ==
                   [i \in 1..Len(state) |->
                       IF state[i].id = action.payload
                       THEN [state[i] EXCEPT !.completed = ~state[i].completed]
                       ELSE state[i]]
           IN  [todos |-> updatedTodos, slot |-> Stored(StringifyTodos(updatedTodos))]
      [] action.type = "REORDER" -> [todos |-> action.payload, slot |-> sl]
      [] OTHER -> [todos |-> state, slot |-> sl]

\* mutant of TodoMirrorEffect: an empty list is not written (the guard of the
\* effect of the user variants)
TodoMirrorEffectSkipsEmpty(ts, sl) ==
    IF Len(ts) > 0 THEN Stored(StringifyTodos(ts)) ELSE sl

\* useEffect(() => localStorage.setItem("todos", JSON.stringify(todos)), [todos])
TodoMirrorEffect(ts, sl) == Stored(StringifyTodos(ts))

\* dispatch(action): the reducer, then the effect of the re-render
Dispatch(action) ==
    LET r == todoReducer(todos, action, todoSlot, now)
    IN  /\ todos' = r.todos
        /\ todoSlot' = TodoMirrorEffect(r.todos, r.slot)

\* an App that is not mounted
IdleApp ==
    /\ variant = "A"
    /\ mounted = FALSE
    /\ slot = Absent
    /\ users = <<>>
    /\ newUser = emptyForm
    /\ editingUser = <<>>
    /\ userToDelete = 0
    /\ loading = FALSE
    /\ processing = FALSE
    /\ error = ""
    /\ fetchReq = FALSE
    /\ addReq = <<>>
    /\ updReq = <<>>
    /\ delReq = <<>>
    /\ nextId = FirstNewId
    /\ fetchCalls = 0
    /\ calls = 0

\* useReducer(todoReducer, loadTodosFromStorage())
TodoInit ==
    /\ IdleApp
    /\ InitView
    /\ todoSlot \in {Absent} \cup {Stored(StringifyTodos(l)) : l \in SavedTodoLists}
    /\ todos = loadTodosFromStorage(todoSlot)
    /\ now = 1
    /\ todoMounted = FALSE

\* the provider's effect after the first render
TodoMount ==
    /\ ~todoMounted
    /\ todoMounted' = TRUE
    /\ todoSlot' = TodoMirrorEffect(todos, todoSlot)
    /\ UNCHANGED <<todos, now, appVars, viewVars>>

\* the clock advances
Tick ==
    /\ now < MaxNow
    /\ now' = now + 1
    /\ UNCHANGED <<todos, todoSlot, todoMounted, appVars, viewVars>>

TodoAdd ==
    /\ todoMounted
    /\ Len(todos) < MaxTodos
    /\ \E t \in TodoTexts, cat \in TodoCategories :
        Dispatch([type |-> "ADD", payload |-> [text |-> t, category |-> cat]])
    /\ UNCHANGED <<now, todoMounted, appVars, viewVars>>

TodoDelete ==
    /\ todoMounted
    /\ \E id \in 0..MaxNow : Dispatch([type |-> "DELETE", payload |-> id])
    /\ UNCHANGED <<now, todoMounted, appVars, viewVars>>

TodoToggle ==
    /\ todoMounted
    /\ \E id \in 0..MaxNow : Dispatch([type |-> "TOGGLE", payload |-> id])
    /\ UNCHANGED <<now, todoMounted, appVars, viewVars>>

TodoReorder ==
    /\ todoMounted
    /\ \E payload \in ReorderPayloads(todos) :
        Dispatch([type |-> "REORDER", payload |-> payload])
    /\ UNCHANGED <<now, todoMounted, appVars, viewVars>>

TodoNext ==
    \/ TodoMount
    \/ Tick
    \/ TodoAdd
    \/ TodoDelete
    \/ TodoToggle
    \/ TodoReorder

TodoSpec == TodoInit /\ [][TodoNext]_vars

\* no two records of a list share an id
UniqueIds(s) == \A i, j \in 1..Len(s) : s[i].id = s[j].id => i = j

\* C10: in every reachable state no two records of the Record Store have the same
\* id, in the user variant and in the todo variant.
C10_IdsUnique == UniqueIds(users) /\ UniqueIds(todos)

\* C11: REORDER makes the given sequence the todo store, and no record is added
\* or dropped: the todos after REORDER are the todos before it.
C11_ReorderKeepsRecords ==
    [][TodoReorder => /\ todos' \in ReorderPayloads(todos)
                      /\ Range(todos') = Range(todos)
                      /\ Len(todos') = Len(todos)]_vars

\* C14: in every reachable state of the todo store no two todos have texts that
\* are equal when compared case-insensitively.
C14_TodoTextsUnique ==
    \A i, j \in 1..Len(todos) :
        toLowerCase(todos[i].text) = toLowerCase(todos[j].text) => i = j

\* C17: once the provider's effect has run, the persisted slot "todos" holds
\* the serialization of the current todo list after every action, the empty
\* list and the list left by REORDER included.
C17_TodoSlotMirrorsList ==
    todoMounted => /\ todoSlot = Stored(StringifyTodos(todos))
                   /\ ParseTodos(todoSlot.value) = todos

\* two todos stand in an order only REORDER produces (the later one first), and
\* the slot holds that order
C17_Witness ==
    /\ todoMounted
    /\ Len(todos) = 2
    /\ todos[1].id > todos[2].id
    /\ todoSlot.present
    /\ todoSlot.value[1][1] = todos[1].id

(***************************************************************************)
(* The list view and its controls, over loaded record lists.               *)
(***************************************************************************)
\* the lists viewed: the first n records of a collection whose names and e-mails
\* differ in case and content
ViewName(i) ==
    CASE i % 3 = 0 -> <<"b">>
      [] i % 3 = 1 -> <<"a">>
      [] OTHER     -> <<"A", "b">>

ViewEmail(i) ==
    IF i % 2 = 0 THEN <<"a", "@", "a", ".", "a">> ELSE <<"b", "@", "a", ".", "a">>

ViewList(n) == [i \in 1..n |-> User(i, ViewName(i), ViewEmail(i))]

ViewLists == {ViewList(n) : n \in 0..MaxViewLen}

\* the search terms typed; the last one matches no record
SearchTerms == {<<>>, <<"b">>, <<"A">>, <<"b", "b">>}

\* <option value="5"> ... <option value="50"> of App.js
PageSizeOptions == {5, 10, 20, 50}

\* the App after startup, showing a loaded list
ViewInit ==
    /\ variant \in {"A", "B"}
    /\ mounted = TRUE
    /\ users \in ViewLists
    /\ slot = MirrorEffect(users, Absent)
    /\ newUser = emptyForm
    /\ editingUser = <<>>
    /\ userToDelete = 0
    /\ loading = FALSE
    /\ processing = FALSE
    /\ error = ""
    /\ fetchReq = FALSE
    /\ addReq = <<>>
    /\ updReq = <<>>
    /\ delReq = <<>>
    /\ nextId = MaxViewLen + 1
    /\ fetchCalls = 0
    /\ calls = 0
    /\ InitView
    /\ InitTodo

\* the state of the App other than users
appVarsExceptUsers ==
    <<variant, mounted, slot, newUser, editingUser, userToDelete, loading,
      processing, error, fetchReq, addReq, updReq, delReq, nextId, fetchCalls, calls>>

\* mutant of UsersAfterProjection: users.sort(...) sorts the array of the store
UsersAfterProjectionInPlace(us, cfg) == SortUsers(us, cfg)

\* the array of the store after the render that follows a change of a control:
\* filter, sort and slice run on the copy [...users] and on the arrays filter
\* and slice return, so the array of the store keeps its records and its order
UsersAfterProjection(us, cfg) == us

\* onChange of the search input
SetSearchTerm ==
    /\ \E t \in SearchTerms : t # searchTerm /\ searchTerm' = t
    /\ UNCHANGED <<sortConfig, currentPage, usersPerPage, appVarsExceptUsers, todoVars>>
    /\ users' = UsersAfterProjection(users, sortConfig')

\* onChange of the "Sort by" select
SetSortKey ==
    /\ \E k \in {"name", "email"} :
        k # sortConfig.key /\ sortConfig' = [sortConfig EXCEPT !.key = k]
    /\ UNCHANGED <<searchTerm, currentPage, usersPerPage, appVarsExceptUsers, todoVars>>
    /\ users' = UsersAfterProjection(users, sortConfig')

\* the sort direction button
ToggleSortDirection ==
    /\ sortConfig' = [sortConfig EXCEPT
                         !.direction = IF sortConfig.direction = "asc" THEN "desc"
                                       ELSE "asc"]
    /\ UNCHANGED <<searchTerm, currentPage, usersPerPage, appVarsExceptUsers, todoVars>>
    /\ users' = UsersAfterProjection(users, sortConfig')

\* onChange of the "Items per page" select (App.js only)
SetUsersPerPage ==
    /\ variant = "A"
    /\ \E n \in PageSizeOptions : n # usersPerPage /\ usersPerPage' = n
    /\ currentPage' = 1
    /\ UNCHANGED <<searchTerm, sortConfig, appVarsExceptUsers, todoVars>>
    /\ users' = UsersAfterProjection(users, sortConfig')

\* disabled={currentPage === 1}
PreviousDisabled == currentPage = 1

\* App.js: disabled={currentPage === totalPages};
\* part_001: disabled={currentPage * usersPerPage >= totalFilteredUsers}
NextDisabled ==
    IF variant = "A" THEN currentPage = totalPages
    ELSE currentPage * usersPerPage >= totalFilteredUsers

PreviousPage ==
    /\ ~loading
    /\ ~PreviousDisabled
    /\ currentPage' = currentPage - 1
    /\ UNCHANGED <<searchTerm, sortConfig, usersPerPage, appVarsExceptUsers, todoVars>>
    /\ users' = UsersAfterProjection(users, sortConfig')

NextPage ==
    /\ ~loading
    /\ ~NextDisabled
    /\ currentPage < MaxPage
    /\ currentPage' = currentPage + 1
    /\ UNCHANGED <<searchTerm, sortConfig, usersPerPage, appVarsExceptUsers, todoVars>>
    /\ users' = UsersAfterProjection(users, sortConfig')

\* the numbered page buttons (App.js only), one for each of 1..totalPages
GoToPage ==
    /\ variant = "A"
    /\ ~loading
    /\ \E i \in 1..totalPages : currentPage' = i
    /\ UNCHANGED <<searchTerm, sortConfig, usersPerPage, appVarsExceptUsers, todoVars>>
    /\ users' = UsersAfterProjection(users, sortConfig')

ViewNext ==
    \/ SetSearchTerm
    \/ SetSortKey
    \/ ToggleSortDirection
    \/ SetUsersPerPage
    \/ PreviousPage
    \/ NextPage
    \/ GoToPage

ViewSpec == ViewInit /\ [][ViewNext]_vars

\* the count of the "of ... results" line (App.js) and of the Next control (part_001)
ShownFilteredCount ==
    IF variant = "A" THEN Len(filteredUsers) ELSE totalFilteredUsers

\* the filtered-then-sorted sequence the claims speak of
FilteredSorted == SortUsers(FilterUsers(users, searchTerm), sortConfig)

\* C7: the list displayed for page p is elements (p-1)*pageSize+1 .. p*pageSize of
\* the filtered-then-sorted sequence, for every list, search term, sort
\* configuration, page size and page.
C7_PageIsWindowOfFilteredSorted ==
    LET last == IF currentPage * usersPerPage > Len(FilteredSorted)
                THEN Len(FilteredSorted) ELSE currentPage * usersPerPage
    IN  RenderedUsers = SubSeq(FilteredSorted, (currentPage - 1) * usersPerPage + 1, last)

\* C8: the filtered count and the page count shown and used by the pagination
\* controls come from the length of the whole filtered sequence.
C8_TotalsFromWholeFilteredList ==
    /\ ShownFilteredCount = Len(FilterUsers(users, searchTerm))
    /\ variant = "A" => totalPages = Ceil(Len(FilterUsers(users, searchTerm)), usersPerPage)

\* C15: changing the search term, the sort key, the sort direction, the page size
\* or the current page leaves the Record Store (content and order) and the
\* persisted slot unchanged.
C15_ProjectionKeepsStore ==
    [][(\/ SetSearchTerm \/ SetSortKey \/ ToggleSortDirection
        \/ SetUsersPerPage \/ PreviousPage \/ NextPage \/ GoToPage)
         => (users' = users /\ slot' = slot)]_vars

\* a list that is not in display order is shown filtered, sorted by e-mail
\* downwards, on its second page
C15_Witness ==
    /\ searchTerm = <<"b">>
    /\ sortConfig = [key |-> "email", direction |-> "desc"]
    /\ currentPage = 2
    /\ Len(users) > 1
    /\ users # SortUsers(users, sortConfig)
    /\ RenderedUsers # <<>>
    /\ slot = Stored(Stringify(users))

\* C19: currentPage is never below 1, and Next moves only to a page that holds
\* at least one record of the filtered list, for every store content, the empty
\* store included.
C19_NextStaysInRange ==
    [][/\ currentPage' >= 1
       /\ NextPage => (currentPage' - 1) * usersPerPage
                          < Len(FilterUsers(users, searchTerm))]_vars

====
